---------------------------- MODULE Spec2Model ----------------------------
(***************************************************************************)
(* hgssh4.py: a forced-command wrapper giving ssh access to mercurial      *)
(* repositories.  One run of the script is one behaviour of this module.   *)
(*                                                                         *)
(* Strings are sequences of one-character strings, so that the string      *)
(* operations of the script (shlex.split, str.replace, str.format,         *)
(* configparser's line parsing, os.path) are computed and not assumed.     *)
(* Input strings contain no '%' (configparser interpolation is not         *)
(* modelled), no tab or newline inside a line, and no indented             *)
(* continuation lines.                                                     *)
(***************************************************************************)
EXTENDS Integers, Sequences, FiniteSets, TLC

(***************************************************************************)
(* String helpers (Python str operations).                                 *)
(***************************************************************************)
Whitespace == {" "}

RECURSIVE LStrip(_)
LStrip(s) ==
    IF s # <<>> /\ Head(s) \in Whitespace THEN LStrip(Tail(s)) ELSE s

RECURSIVE RStrip(_)
RStrip(s) ==
    IF s # <<>> /\ s[Len(s)] \in Whitespace
    THEN RStrip(SubSeq(s, 1, Len(s) - 1))
    ELSE s

Strip(s) == LStrip(RStrip(s))

StartsWith(s, p) == Len(s) >= Len(p) /\ SubSeq(s, 1, Len(p)) = p

\* str.find for a set of characters: index of the first character of s that
\* is in cs, 0 when there is none.
FindChar(s, cs) ==
    IF \E i \in 1..Len(s) : s[i] \in cs
    THEN CHOOSE i \in 1..Len(s) :
            s[i] \in cs /\ \A j \in 1..(i - 1) : s[j] \notin cs
    ELSE 0

\* str.replace(old, '', 1) for a one-character old: the FIRST occurrence of
\* the character, wherever it is, is removed.
ReplaceFirst(s, c) ==
    LET i == FindChar(s, {c})
    IN  IF i = 0 THEN s ELSE SubSeq(s, 1, i - 1) \o SubSeq(s, i + 1, Len(s))

\* str.split(sep) for a one-character sep.
RECURSIVE Split(_, _)
Split(s, c) ==
    LET i == FindChar(s, {c})
    IN  IF i = 0 THEN <<s>>
        ELSE <<SubSeq(s, 1, i - 1)>> \o Split(SubSeq(s, i + 1, Len(s)), c)

\* sep.join(parts)
RECURSIVE Join(_, _)
Join(parts, sep) ==
    IF parts = <<>> THEN <<>>
    ELSE IF Len(parts) = 1 THEN parts[1]
    ELSE parts[1] \o sep \o Join(Tail(parts), sep)

UpperToLower ==
    "A" :> "a" @@ "B" :> "b" @@ "C" :> "c" @@ "D" :> "d" @@
    "E" :> "e" @@ "F" :> "f" @@ "G" :> "g" @@ "H" :> "h" @@
    "I" :> "i" @@ "J" :> "j" @@ "K" :> "k" @@ "L" :> "l" @@
    "M" :> "m" @@ "N" :> "n" @@ "O" :> "o" @@ "P" :> "p" @@
    "Q" :> "q" @@ "R" :> "r" @@ "S" :> "s" @@ "T" :> "t" @@
    "U" :> "u" @@ "V" :> "v" @@ "W" :> "w" @@ "X" :> "x" @@
    "Y" :> "y" @@ "Z" :> "z"

\* str.lower()
Lower(s) ==
    [i \in 1..Len(s) |->
        IF s[i] \in DOMAIN UpperToLower THEN UpperToLower[s[i]] ELSE s[i]]

(***************************************************************************)
(* shlex.split(s): shlex(s, posix=True) with whitespace_split = True and   *)
(* no comment characters.  Lex follows shlex.read_token character by       *)
(* character; state is " " (between tokens), "a" (inside a word), a quote  *)
(* character (inside quotes) or "\\" (after an escape character).  The     *)
(* result is [ok |-> TRUE, tokens |-> ...] or, when shlex raises           *)
(* ValueError, [ok |-> FALSE, msg |-> ...].                                *)
(***************************************************************************)
Quotes == {"'", "\""}
EscapeChar == "\\"

RECURSIVE Lex(_, _, _, _, _, _, _)
Lex(s, i, state, esc, tok, quoted, out) ==
    LET eof == i > Len(s)
        c   == IF eof THEN "" ELSE s[i]
    IN  CASE state = " " ->
               IF eof THEN [ok |-> TRUE, tokens |-> out]
               ELSE IF c \in Whitespace
                    THEN Lex(s, i + 1, " ", esc, tok, quoted, out)
               ELSE IF c = EscapeChar
                    THEN Lex(s, i + 1, EscapeChar, "a", tok, quoted, out)
               ELSE IF c \in Quotes
                    THEN Lex(s, i + 1, c, esc, tok, quoted, out)
               ELSE Lex(s, i + 1, "a", esc, <<c>>, quoted, out)
          [] state \in Quotes ->
               IF eof THEN [ok |-> FALSE, msg |-> "No closing quotation"]
               ELSE IF c = state
                    THEN Lex(s, i + 1, "a", esc, tok, TRUE, out)
               ELSE IF c = EscapeChar /\ state = "\""
                    THEN Lex(s, i + 1, EscapeChar, state, tok, TRUE, out)
               ELSE Lex(s, i + 1, state, esc, Append(tok, c), TRUE, out)
          [] state = EscapeChar ->
               IF eof THEN [ok |-> FALSE, msg |-> "No escaped character"]
               ELSE IF esc \in Quotes /\ c # EscapeChar /\ c # esc
                    THEN Lex(s, i + 1, esc, esc,
                             tok \o <<EscapeChar, c>>, quoted, out)
               ELSE Lex(s, i + 1, esc, esc, Append(tok, c), quoted, out)
          [] OTHER ->
               IF eof
               THEN [ok |-> TRUE,
                     tokens |-> IF tok # <<>> \/ quoted
                                THEN Append(out, tok) ELSE out]
               ELSE IF c \in Whitespace
                    THEN IF tok # <<>> \/ quoted
                         THEN Lex(s, i + 1, " ", " ", <<>>, FALSE,
                                  Append(out, tok))
                         ELSE Lex(s, i + 1, " ", esc, tok, quoted, out)
               ELSE IF c \in Quotes
                    THEN Lex(s, i + 1, c, esc, tok, quoted, out)
               ELSE IF c = EscapeChar
                    THEN Lex(s, i + 1, EscapeChar, "a", tok, quoted, out)
               ELSE Lex(s, i + 1, "a", esc, Append(tok, c), quoted, out)

ShlexSplit(s) == Lex(s, 1, " ", " ", <<>>, FALSE, <<>>)

(***************************************************************************)
(* configparser.ConfigParser() and config.read(path): default delimiters   *)
(* '=' and ':', full-line comment prefixes '#' and ';', NO inline comment  *)
(* prefixes, strict = True, optionxform = str.lower, default section       *)
(* DEFAULT.  A file is a sequence of lines; a path that cannot be opened   *)
(* is silently skipped by read().                                          *)
(***************************************************************************)
EmptyMap == [k \in {} |-> <<>>]

DEFAULTSECT == <<"D", "E", "F", "A", "U", "L", "T">>

CommentPrefixes == {"#", ";"}
Delimiters == {"=", ":"}

optionxform(optionstr) == Lower(optionstr)

\* Index of the last "]" of s, 0 when there is none.
LastBracket(s) ==
    IF \E i \in 1..Len(s) : s[i] = "]"
    THEN CHOOSE i \in 1..Len(s) :
            s[i] = "]" /\ \A j \in (i + 1)..Len(s) : s[j] # "]"
    ELSE 0

\* SECTCRE = \[(?P<header>.+)\] matched at the start of the stripped line.
IsSectionLine(value) == Head(value) = "[" /\ LastBracket(value) >= 3

SectionHeader(value) == SubSeq(value, 2, LastBracket(value) - 1)

\* OPTCRE = (?P<option>.*?)\s*(?P<vi>=|:)\s*(?P<value>.*)$ : the option name
\* is the text before the first delimiter, the value everything after it,
\* both stripped.  Nothing is cut from the value: there are no inline
\* comment prefixes.
OptionName(value) ==
    optionxform(RStrip(SubSeq(value, 1, FindChar(value, Delimiters) - 1)))

OptionValue(value) ==
    Strip(SubSeq(value, FindChar(value, Delimiters) + 1, Len(value)))

\* RawConfigParser._read.  cursect is <<>> before the first header and
\* <<name>> afterwards; perr records a line that matched nothing
\* (ParsingError is raised once the whole file was read).
RECURSIVE ReadLines(_, _, _, _, _, _)
ReadLines(lines, n, cursect, defaults, sections, perr) ==
    IF n > Len(lines)
    THEN IF perr
         THEN [ok |-> FALSE, msg |-> "ParsingError"]
         ELSE [ok |-> TRUE, defaults |-> defaults, sections |-> sections]
    ELSE
    LET value == Strip(lines[n])
    IN  IF value = <<>> \/ Head(value) \in CommentPrefixes
        THEN ReadLines(lines, n + 1, cursect, defaults, sections, perr)
        ELSE IF IsSectionLine(value)
        THEN LET sectname == SectionHeader(value)
             IN  IF sectname \in DOMAIN sections
                 THEN [ok |-> FALSE, msg |-> "DuplicateSectionError"]
                 ELSE IF sectname = DEFAULTSECT
                 THEN ReadLines(lines, n + 1, <<sectname>>, defaults,
                                sections, perr)
                 ELSE ReadLines(lines, n + 1, <<sectname>>, defaults,
                                (sectname :> EmptyMap) @@ sections, perr)
        ELSE IF cursect = <<>>
        THEN [ok |-> FALSE, msg |-> "MissingSectionHeaderError"]
        ELSE IF FindChar(value, Delimiters) = 0 \/ OptionName(value) = <<>>
        THEN ReadLines(lines, n + 1, cursect, defaults, sections, TRUE)
        ELSE
        LET optname == OptionName(value)
            optval  == OptionValue(value)
            sect    == cursect[1]
            isdef   == sect = DEFAULTSECT
            old     == IF isdef THEN defaults ELSE sections[sect]
        IN  IF optname \in DOMAIN old
            THEN [ok |-> FALSE, msg |-> "DuplicateOptionError"]
            ELSE IF isdef
            THEN ReadLines(lines, n + 1, cursect,
                           (optname :> optval) @@ defaults, sections, perr)
            ELSE ReadLines(lines, n + 1, cursect, defaults,
                           [sections EXCEPT ![sect] = (optname :> optval) @@ old],
                           perr)

EmptyConfig == [ok |-> TRUE, defaults |-> EmptyMap, sections |-> EmptyMap]

\* config.read(filename): file is <<lines>> when the path can be opened and
\* <<>> when it cannot.
ConfigRead(file) ==
    IF file = <<>> THEN EmptyConfig
    ELSE ReadLines(file[1], 1, <<>>, EmptyMap, EmptyMap, FALSE)

\* config[section]: KeyError unless the section exists.
HasSection(config, section) == section \in DOMAIN config.sections

\* SectionProxy.__getitem__(key): has_option looks for optionxform(key) in
\* the section, then in the defaults.
HasOption(config, section, key) ==
    \/ optionxform(key) \in DOMAIN config.sections[section]
    \/ optionxform(key) \in DOMAIN config.defaults

GetOption(config, section, key) ==
    IF optionxform(key) \in DOMAIN config.sections[section]
    THEN config.sections[section][optionxform(key)]
    ELSE config.defaults[optionxform(key)]

(***************************************************************************)
(* os.path (posixpath): expanduser, join, normpath, abspath.  home is      *)
(* $HOME, cwd is os.getcwd(); the password database knows the account      *)
(* running the script only.                                                *)
(***************************************************************************)
sep == "/"

Passwd == (<<"h", "g">> :> <<"/", "h", "/", "h", "g">>)

RECURSIVE RStripSep(_)
RStripSep(s) ==
    IF s # <<>> /\ s[Len(s)] = sep
    THEN RStripSep(SubSeq(s, 1, Len(s) - 1))
    ELSE s

expanduser(path, home) ==
    IF ~StartsWith(path, <<"~">>) THEN path
    ELSE
    LET j    == FindChar(Tail(path), {sep})
        i    == IF j = 0 THEN Len(path) + 1 ELSE j + 1
        name == SubSeq(path, 2, i - 1)
        rest == SubSeq(path, i, Len(path))
    IN  IF i = 2
        THEN LET r == RStripSep(home) \o rest
             IN  IF r = <<>> THEN <<sep>> ELSE r
        ELSE IF name \notin DOMAIN Passwd THEN path
        ELSE LET r == RStripSep(Passwd[name]) \o rest
             IN  IF r = <<>> THEN <<sep>> ELSE r

isabs(s) == StartsWith(s, <<sep>>)

join(a, b) ==
    IF isabs(b) THEN b
    ELSE IF a = <<>> \/ a[Len(a)] = sep THEN a \o b
    ELSE a \o <<sep>> \o b

\* The component loop of normpath.
RECURSIVE NormComps(_, _, _)
NormComps(comps, initial_slashes, new_comps) ==
    IF comps = <<>> THEN new_comps
    ELSE
    LET comp == Head(comps)
    IN  IF comp = <<>> \/ comp = <<".">>
        THEN NormComps(Tail(comps), initial_slashes, new_comps)
        ELSE IF \/ comp # <<".", ".">>
                \/ (initial_slashes = 0 /\ new_comps = <<>>)
                \/ (new_comps # <<>> /\ new_comps[Len(new_comps)] = <<".", ".">>)
        THEN NormComps(Tail(comps), initial_slashes, Append(new_comps, comp))
        ELSE IF new_comps # <<>>
        THEN NormComps(Tail(comps), initial_slashes,
                       SubSeq(new_comps, 1, Len(new_comps) - 1))
        ELSE NormComps(Tail(comps), initial_slashes, new_comps)

normpath(path) ==
    IF path = <<>> THEN <<".">>
    ELSE
    LET initial_slashes ==
            IF ~isabs(path) THEN 0
            ELSE IF StartsWith(path, <<sep, sep>>)
                    /\ ~StartsWith(path, <<sep, sep, sep>>) THEN 2
            ELSE 1
        body == Join(NormComps(Split(path, sep), initial_slashes, <<>>), <<sep>>)
        res  == [k \in 1..initial_slashes |-> sep] \o body
    IN  IF res = <<>> THEN <<".">> ELSE res

abspath(path, cwd) ==
    IF isabs(path) THEN normpath(path) ELSE normpath(join(cwd, path))

(***************************************************************************)
(* String literals of the script.                                          *)
(***************************************************************************)
s_hg == <<"h", "g">>
s_R == <<"-", "R">>
s_serve == <<"s", "e", "r", "v", "e">>
s_stdio == <<"-", "-", "s", "t", "d", "i", "o">>
s_sudo == <<"s", "u", "d", "o">>
s_user_opt == <<"-", "-", "u", "s", "e", "r", "=">>
s_dashdash == <<"-", "-">>
s_repos_prefix == <<"r", "e", "p", "o", "s", ".">>
s_location == <<"l", "o", "c", "a", "t", "i", "o", "n">>
s_readonly == <<"r", "e", "a", "d", "o", "n", "l", "y">>
s_question == <<"?">>

(***************************************************************************)
(* Inputs of one run: the positional arguments, the file behind args.conf, *)
(* the environment and the working directory.                              *)
(***************************************************************************)
MaxExtra == 2

u_user1 == <<"u", "s", "e", "r", "1">>
u_user2 == <<"u", "s", "e", "r", "2">>
u_User1 == <<"U", "s", "e", "r", "1">>
u_user9 == <<"u", "s", "e", "r", "9">>
r_myrepo1 == <<"m", "y", "r", "e", "p", "o", "1">>
r_myrepo2 == <<"m", "y", "r", "e", "p", "o", "2">>
p_conf == <<"a", "c", "l">>
p_home == <<"/", "h", "o", "m", "e", "/", "h", "g">>
p_cwd == <<"/", "s", "r", "v", "/", "h", "g">>
p_root == <<"/">>

\* The identity is the first positional argument of the forced command.
Identities == {u_user1, u_user2, u_User1, u_user9, s_location}

\* Repository tokens a client may send.
RepoTokens ==
    { r_myrepo1, r_myrepo2,
      <<sep>> \o r_myrepo1,
      <<sep, sep>> \o r_myrepo1,
      <<"m", "y", sep>> \o <<"r", "e", "p", "o", "1">>,
      <<".", ".">> }

Cmd(tokens) == Join(tokens, <<" ">>)

ValidTokens(tok) == <<s_hg, s_R, tok, s_serve, s_stdio>>

\* Sequences of 1..MaxExtra extra tokens.
ExtraTokens == {<<";">>, <<"r", "m">>}
Extras == UNION {[1..n -> ExtraTokens] : n \in 1..MaxExtra}

\* Token lists that deviate from the one accepted shape.
DeviantTokenLists ==
    LET v == ValidTokens(r_myrepo1)
    IN  {SubSeq(v, 1, n) : n \in 0..4}
        \cup {SubSeq(v, 2, 5), SubSeq(v, 1, 2) \o SubSeq(v, 4, 5)}
        \cup {[v EXCEPT ![i] = <<"x">>] : i \in {1, 2, 4, 5}}
        \cup {[v EXCEPT ![2] = <<"-", "r">>], <<s_hg, r_myrepo1, s_R, s_serve, s_stdio>>,
              <<s_sudo>> \o v, <<s_hg, s_R, r_myrepo1, s_hg, s_serve, s_stdio>>}
        \cup {v \o e : e \in Extras}

\* Command strings whose quoting matters to shlex.
QuotedCommands ==
    { <<"'">> \o s_hg \o <<"'", " ">> \o s_R \o <<" ", "\"">> \o r_myrepo1
          \o <<"\"", " ">> \o s_serve \o <<" ">> \o s_stdio,
      Cmd(<<s_hg, s_R, <<"'", "'">>, s_serve, s_stdio>>),
      Cmd(<<s_hg, s_R>>) \o <<" ", "'">> \o Cmd(<<r_myrepo1, s_serve, s_stdio>>),
      Cmd(ValidTokens(r_myrepo1)) \o <<" ", "\\">>,
      Cmd(<<s_hg, s_R>>) \o <<" ", "'">> \o Cmd(<<r_myrepo1, s_serve>>)
          \o <<"'", " ">> \o s_stdio }

ValidCommands == {Cmd(ValidTokens(tok)) : tok \in RepoTokens}

\* os.environ: cmd is <<>> when SSH_ORIGINAL_COMMAND is unset.
AllCommands ==
    {<<>>} \cup {<<c>> : c \in ValidCommands \cup QuotedCommands}
           \cup {<<Cmd(ts)>> : ts \in DeviantTokenLists}

SectionLine(name) == <<"[">> \o name \o <<"]">>
OptionLine(key, value) == key \o <<" ", "=", " ">> \o value

\* Values written on a grant line.
GrantValues ==
    { <<"r", "e", "a", "d">>, <<"w", "r", "i", "t", "e">>,
      <<"R", "e", "a", "d">>, <<"w", "r", "i", "t", "e", "r">>, <<>>,
      <<"w", "r", "i", "t", "e", " ", "#", " ", "r", "w">> }

\* A key of a section with each value it may be given; <<>> = no such line.
OptionLines(key, values) == {<<>>} \cup {<<OptionLine(key, v)>> : v \in values}

Locations ==
    { <<"r", "e", "l", sep, "p">>, <<sep, "a", "b", "s", sep, "p">>,
      <<"~", sep, "r">>, <<".", ".", sep, "u", "p">> }

ReadonlyBlocks ==
    { <<>>, <<SectionLine(s_readonly)>>,
      <<SectionLine(s_readonly), OptionLine(s_sudo, <<"h", "g", "r", "o">>)>> }

DefaultBlocks ==
    { <<>>,
      <<SectionLine(DEFAULTSECT), OptionLine(s_sudo, <<"h", "g", "d">>)>>,
      <<SectionLine(DEFAULTSECT), OptionLine(s_location, <<sep, "d">>)>> }

\* ACL files with one repository section, myrepo1.
GeneratedFiles ==
    { <<d \o ro \o <<SectionLine(s_repos_prefix \o r_myrepo1)>> \o loc \o g1 \o g2>> :
        d \in DefaultBlocks, ro \in ReadonlyBlocks,
        loc \in OptionLines(s_location, Locations),
        g1 \in OptionLines(u_user1, GrantValues),
        g2 \in OptionLines(u_user2, {<<"r", "e", "a", "d">>}) }

\* The example ACL of the module documentation, line for line.
ExampleACL ==
    << <<"[", "r", "e", "a", "d", "o", "n", "l", "y", "]">>,
       <<"s", "u", "d", "o", " ", "=", " ", "h", "g", "r", "e", "a">> \o
         <<"d">>,
       <<>>,
       <<"#", " ", "T", "h", "i", "s", " ", "r", "e", "p", "o", "s">> \o
         <<"i", "t", "o", "r", "y", " ", "w", "o", "u", "l", "d", " ">> \o
         <<"b", "e", " ", "a", "c", "c", "e", "s", "s", "i", "b", "l">> \o
         <<"e", " ", "a", "s", " ", "s", "s", "h", ":", "/", "/", "h">> \o
         <<"g", "@", "m", "y", ".", "s", "e", "r", "v", "e", "r", "/">> \o
         <<"m", "y", "r", "e", "p", "o", "1">>,
       <<"[", "r", "e", "p", "o", "s", ".", "m", "y", "r", "e", "p">> \o
         <<"o", "1", "]">>,
       <<"l", "o", "c", "a", "t", "i", "o", "n", " ", "=", " ", "r">> \o
         <<"e", "l", "a", "t", "i", "v", "e", "/", "p", "a", "t", "h">> \o
         <<"/", "t", "o", "/", "r", "e", "p", "o">>,
       <<"u", "s", "e", "r", "1", " ", "=", " ", "w", "r", "i", "t">> \o
         <<"e", " ", "#", " ", "R", "e", "a", "d", "/", "W", "r", "i">> \o
         <<"t", "e", " ", "a", "c", "c", "e", "s", "s">>,
       <<"u", "s", "e", "r", "2", " ", "=", " ", "r", "e", "a", "d">> \o
         <<" ", " ", "#", " ", "R", "e", "a", "d", "-", "o", "n", "l">> \o
         <<"y", " ", "a", "c", "c", "e", "s", "s">>,
       <<>>,
       <<"[", "r", "e", "p", "o", "s", ".", "m", "y", "r", "e", "p">> \o
         <<"o", "2", "]">>,
       <<"l", "o", "c", "a", "t", "i", "o", "n", " ", "=", " ", "/">> \o
         <<"a", "b", "s", "o", "l", "u", "t", "e", "/", "p", "a", "t">> \o
         <<"h", "/", "t", "o", "/", "r", "e", "p", "o">>,
       <<"u", "s", "e", "r", "1", " ", "=", " ", "r", "e", "a", "d">>,
       <<"u", "s", "e", "r", "4", " ", "=", " ", "r", "e", "a", "d">>,
       <<"u", "s", "e", "r", "3", " ", "=", " ", "w", "r", "i", "t">> \o
         <<"e">> >>

\* Files configparser refuses, and the path that cannot be opened (<<>>).
BrokenFiles ==
    { <<>>,
      << <<OptionLine(u_user1, <<"r", "e", "a", "d">>)>> >>,
      << <<SectionLine(s_readonly), SectionLine(s_readonly)>> >>,
      << <<SectionLine(s_readonly), u_user1>> >>,
      << <<SectionLine(s_readonly), OptionLine(s_sudo, <<"a">>),
           OptionLine(s_sudo, <<"b">>)>> >> }

ChildOutcomes ==
    {[started |-> TRUE, returncode |-> c] : c \in {0, 1, 255, -9}}
        \cup {[started |-> FALSE, returncode |-> 0]}

Inputs ==
    [argv : {<<u, p_conf>> : u \in {u_user1, u_user2}},
     conffile : {<<ExampleACL>>} \cup BrokenFiles,
     cmd : AllCommands, cwd : {p_cwd, p_root}]
    \cup
    [argv : {<<u, p_conf>> : u \in Identities},
     conffile : GeneratedFiles,
     cmd : {<<c>> : c \in ValidCommands}, cwd : {p_cwd}]
    \cup
    [argv : {<<>>, <<u_user1>>, <<u_user1, p_conf, p_conf>>},
     conffile : {<<ExampleACL>>},
     cmd : {<<Cmd(ValidTokens(r_myrepo1))>>}, cwd : {p_cwd}]

(***************************************************************************)
(* The run.  argv, conffile, environ and cwd are the inputs; the other     *)
(* variables are the locals of main(), the exception in flight (<<>> when  *)
(* there is none), what was written to the error stream, the argument      *)
(* vectors handed to subprocess.run, the child's outcome and the exit      *)
(* status.  An unset local is <<>>, a set one <<value>>.                   *)
(***************************************************************************)
VARIABLES pc, argv, conffile, environ, cwd,
          args, config, cmdargv, repo_name, repo_conf, repo_path, access,
          cmd, spawned, child, exc, stderr, exitcode

inputs == <<argv, conffile, environ, cwd>>
vars == <<pc, argv, conffile, environ, cwd,
          args, config, cmdargv, repo_name, repo_conf, repo_path, access,
          cmd, spawned, child, exc, stderr, exitcode>>

Error(type, fmt, arg) == [type |-> type, fmt |-> fmt, arg |-> arg]

\* raise: the exception propagates out of main() to the handler.
Raise(e) == exc' = <<e>> /\ pc' = "except"

Init ==
    /\ \E i \in Inputs :
          /\ argv = i.argv
          /\ conffile = i.conffile
          /\ environ = [SSH_ORIGINAL_COMMAND |-> i.cmd, HOME |-> p_home]
          /\ cwd = i.cwd
    /\ pc = "parse_args"
    /\ args = [user |-> <<>>, conf |-> <<>>]
    /\ config = EmptyConfig
    /\ cmdargv = <<>>
    /\ repo_name = <<>>
    /\ repo_conf = <<>>
    /\ repo_path = <<>>
    /\ access = <<>>
    /\ cmd = <<>>
    /\ spawned = <<>>
    /\ child = <<>>
    /\ exc = <<>>
    /\ stderr = <<>>
    /\ exitcode = <<>>

\* parser.parse_args(): two positionals, else argparse prints its usage
\* message and raises SystemExit(2).
ParseArgs ==
    /\ pc = "parse_args"
    /\ IF Len(argv) = 2
       THEN /\ args' = [user |-> argv[1], conf |-> argv[2]]
            /\ pc' = "read_config"
            /\ UNCHANGED <<exc, stderr>>
       ELSE /\ stderr' = Append(stderr, Error("argparse", "usage", <<>>))
            /\ Raise(Error("SystemExit", "2", <<>>))
            /\ UNCHANGED args
    /\ UNCHANGED <<inputs, config, cmdargv, repo_name, repo_conf, repo_path,
                   access, cmd, spawned, child, exitcode>>

\* config = ConfigParser(); config.read(args.conf)
ReadConfig ==
    /\ pc = "read_config"
    /\ LET r == ConfigRead(conffile)
       IN  IF r.ok
           THEN config' = r /\ pc' = "validate" /\ UNCHANGED exc
           ELSE Raise(Error("configparser.Error", r.msg, <<>>)) /\ UNCHANGED config
    /\ UNCHANGED <<inputs, args, cmdargv, repo_name, repo_conf, repo_path,
                   access, cmd, spawned, child, stderr, exitcode>>

\* os.getenv('SSH_ORIGINAL_COMMAND', '?')
OrigCmd ==
    IF environ.SSH_ORIGINAL_COMMAND = <<>> THEN s_question
    ELSE environ.SSH_ORIGINAL_COMMAND[1]

\* Python slices s[:n] and s[n:].
Take(s, n) == SubSeq(s, 1, IF Len(s) < n THEN Len(s) ELSE n)
Drop(s, n) == SubSeq(s, n + 1, Len(s))

\* Mutant: the tail is compared as cmdargv[3:5], so trailing tokens pass.
CommandShapeOk_TailPrefix(v) ==
    Take(v, 2) = <<s_hg, s_R>> /\ Take(Drop(v, 3), 2) = <<s_serve, s_stdio>>

\* cmdargv[:2] == ['hg', '-R'] and cmdargv[3:] == ['serve', '--stdio']
CommandShapeOk(v) ==
    Take(v, 2) = <<s_hg, s_R>> /\ Drop(v, 3) = <<s_serve, s_stdio>>

Validate ==
    /\ pc = "validate"
    /\ LET r == ShlexSplit(OrigCmd)
       IN  IF ~r.ok
           THEN Raise(Error("ValueError", r.msg, <<>>)) /\ UNCHANGED cmdargv
           ELSE /\ cmdargv' = r.tokens
                /\ IF CommandShapeOk(r.tokens)
                   THEN pc' = "lookup_repo" /\ UNCHANGED exc
                   ELSE Raise(Error("ValueError", "Illegal command {}", r.tokens))
    /\ UNCHANGED <<inputs, args, config, repo_name, repo_conf, repo_path,
                   access, cmd, spawned, child, stderr, exitcode>>

\* cmdargv[2].replace(os.sep, '', 1)
RepoName(token) == ReplaceFirst(token, sep)

\* 'repos.{}'.format(repo_name)
RepoSection(name) == s_repos_prefix \o name

LookupRepo ==
    /\ pc = "lookup_repo"
    /\ LET name == RepoName(cmdargv[3])
       IN  /\ repo_name' = <<name>>
           /\ IF HasSection(config, RepoSection(name))
              THEN /\ repo_conf' = <<RepoSection(name)>>
                   /\ pc' = "lookup_location"
                   /\ UNCHANGED exc
              ELSE /\ Raise(Error("ValueError", "No such repository", <<>>))
                   /\ UNCHANGED repo_conf
    /\ UNCHANGED <<inputs, args, config, cmdargv, repo_path, access, cmd,
                   spawned, child, stderr, exitcode>>

\* Mutant: the location is used as written.
ResolvePath_Raw(location) == location

\* os.path.abspath(os.path.expanduser(repo_path))
ResolvePath(location) == abspath(expanduser(location, environ.HOME), cwd)

LookupLocation ==
    /\ pc = "lookup_location"
    /\ IF HasOption(config, repo_conf[1], s_location)
       THEN /\ repo_path' = <<ResolvePath(GetOption(config, repo_conf[1], s_location))>>
            /\ pc' = "lookup_access"
            /\ UNCHANGED exc
       ELSE /\ Raise(Error("ValueError", "Bad config: no location for repository", <<>>))
            /\ UNCHANGED repo_path
    /\ UNCHANGED <<inputs, args, config, cmdargv, repo_name, repo_conf,
                   access, cmd, spawned, child, stderr, exitcode>>

s_read == <<"r", "e", "a", "d">>
s_write == <<"w", "r", "i", "t", "e">>

\* Mutant: the grant is compared case-insensitively.
AccessRecognised_AnyCase(a) == Lower(a) \in {s_read, s_write}

\* access not in ['read', 'write']
AccessRecognised(a) == a \in {s_read, s_write}

LookupAccess ==
    /\ pc = "lookup_access"
    /\ IF ~HasOption(config, repo_conf[1], args.user)
       THEN Raise(Error("ValueError", "Access denied", <<>>)) /\ UNCHANGED access
       ELSE LET a == GetOption(config, repo_conf[1], args.user)
            IN  /\ access' = <<a>>
                /\ IF AccessRecognised(a)
                   THEN pc' = "build_cmd" /\ UNCHANGED exc
                   ELSE Raise(Error("ValueError", "Access denied", <<>>))
    /\ UNCHANGED <<inputs, args, config, cmdargv, repo_name, repo_conf,
                   repo_path, cmd, spawned, child, stderr, exitcode>>

\* ['hg', '-R', repo_path, 'serve', '--stdio']
BaseCmd(path) == <<s_hg, s_R, path, s_serve, s_stdio>>

\* Mutant: no option terminator.
SudoCmd_NoTerminator(sudo_user, base) == <<s_sudo, s_user_opt \o sudo_user>> \o base

\* ['sudo', '--user={}'.format(sudo_user), '--'] + cmd
SudoCmd(sudo_user, base) == <<s_sudo, s_user_opt \o sudo_user, s_dashdash>> \o base

\* config['readonly']['sudo'] does not raise KeyError
HasSudoUser(c) == HasSection(c, s_readonly) /\ HasOption(c, s_readonly, s_sudo)

\* Mutant: a read grant without a sudo user runs the server directly.
BuildCmd_Unwrapped ==
    /\ pc = "build_cmd"
    /\ IF access[1] = s_read /\ HasSudoUser(config)
       THEN cmd' = SudoCmd(GetOption(config, s_readonly, s_sudo),
                           BaseCmd(repo_path[1]))
       ELSE cmd' = BaseCmd(repo_path[1])
    /\ pc' = "run"
    /\ UNCHANGED <<inputs, args, config, cmdargv, repo_name, repo_conf,
                   repo_path, access, spawned, child, exc, stderr, exitcode>>

BuildCmd ==
    /\ pc = "build_cmd"
    /\ IF access[1] = s_read
       THEN IF HasSudoUser(config)
            THEN /\ cmd' = SudoCmd(GetOption(config, s_readonly, s_sudo),
                                   BaseCmd(repo_path[1]))
                 /\ pc' = "run"
                 /\ UNCHANGED exc
            ELSE /\ Raise(Error("ValueError", "Bad config: no readonly sudo user", <<>>))
                 /\ cmd' = BaseCmd(repo_path[1])
       ELSE /\ cmd' = BaseCmd(repo_path[1])
            /\ pc' = "run"
            /\ UNCHANGED exc
    /\ UNCHANGED <<inputs, args, config, cmdargv, repo_name, repo_conf,
                   repo_path, access, spawned, child, stderr, exitcode>>

\* subprocess.run(cmd, stdin=..., stdout=..., stderr=...): the call waits for
\* the child and returns a CompletedProcess, which main() drops; it raises
\* OSError when the program cannot be started.
Run ==
    /\ pc = "run"
    /\ spawned' = Append(spawned, cmd)
    /\ \E o \in ChildOutcomes :
          /\ child' = <<o>>
          /\ IF o.started
             THEN pc' = "return" /\ UNCHANGED exc
             ELSE Raise(Error("OSError", "No such file or directory", <<cmd[1]>>))
    /\ UNCHANGED <<inputs, args, config, cmdargv, repo_name, repo_conf,
                   repo_path, access, cmd, stderr, exitcode>>

\* Mutant: a failed child is run a second time.
Return_Retry ==
    /\ pc = "return"
    /\ IF child[1].returncode # 0 /\ Len(spawned) < 2
       THEN pc' = "run" /\ UNCHANGED exitcode
       ELSE pc' = "exited" /\ exitcode' = <<0>>
    /\ UNCHANGED <<inputs, args, config, cmdargv, repo_name, repo_conf,
                   repo_path, access, cmd, spawned, child, exc, stderr>>

\* main() returns; the interpreter ends with status 0.
Return ==
    /\ pc = "return"
    /\ exitcode' = <<0>>
    /\ pc' = "exited"
    /\ UNCHANGED <<inputs, args, config, cmdargv, repo_name, repo_conf,
                   repo_path, access, cmd, spawned, child, exc, stderr>>

\* except BaseException as e: print(e, file=sys.stderr); sys.exit(1)
Except ==
    /\ pc = "except"
    /\ stderr' = Append(stderr, exc[1])
    /\ exitcode' = <<1>>
    /\ pc' = "exited"
    /\ UNCHANGED <<inputs, args, config, cmdargv, repo_name, repo_conf,
                   repo_path, access, cmd, spawned, child, exc>>

Next ==
    \/ ParseArgs
    \/ ReadConfig
    \/ Validate
    \/ LookupRepo
    \/ LookupLocation
    \/ LookupAccess
    \/ BuildCmd
    \/ Run
    \/ Return
    \/ Except

Spec == Init /\ [][Next]_vars

(***************************************************************************)
(* Properties.                                                             *)
(***************************************************************************)
Exited == pc = "exited"

\* The line print(e) wrote last.
LastError == stderr[Len(stderr)]

\* The run ended in the handler: message on the error stream, status 1.
ExitedWithError(fmt) ==
    /\ Exited
    /\ exc # <<>> /\ exc[1].fmt = fmt
    /\ stderr # <<>> /\ LastError = exc[1]
    /\ exitcode = <<1>>

\* Exactly five tokens, 'hg' '-R' in positions 0,1 and 'serve' '--stdio' in
\* positions 3,4.
IsExactShape(v) ==
    /\ Len(v) = 5
    /\ v[1] = s_hg /\ v[2] = s_R /\ v[4] = s_serve /\ v[5] = s_stdio

\* The steps that consult the table or run the server.
AfterValidation ==
    pc \in {"lookup_repo", "lookup_location", "lookup_access", "build_cmd",
            "run", "return"}

\* C1: a command whose token sequence is not exactly
\* ['hg', '-R', <token>, 'serve', '--stdio'] (any length, the default '?' of
\* an unset variable included) is rejected with the 'Illegal command' error:
\* no step after validation is entered, no table lookup is made and nothing
\* is spawned, whatever the identity.
C1_DeviantCommandRejected ==
    LET r == ShlexSplit(OrigCmd)
    IN  (r.ok /\ ~IsExactShape(r.tokens)) =>
           /\ ~AfterValidation
           /\ repo_name = <<>> /\ repo_conf = <<>> /\ repo_path = <<>>
           /\ access = <<>> /\ cmd = <<>>
           /\ spawned = <<>> /\ child = <<>>
           /\ Exited => /\ exitcode = <<1>>
                        /\ exc # <<>>
                        /\ exc[1].type = "ValueError" =>
                              /\ ExitedWithError("Illegal command {}")
                              /\ exc[1].arg = r.tokens

\* A five-token command with a wrong literal was rejected.
C1_Witness ==
    /\ ExitedWithError("Illegal command {}")
    /\ Len(cmdargv) = 5 /\ ~IsExactShape(cmdargv)
    /\ spawned = <<>>

\* C2 (as claimed): once the wrapped process was started, the exit status of
\* the script reflects the child's: 0 only if the child returned 0.
C2_ExitStatusReflectsChild ==
    (Exited /\ child # <<>> /\ child[1].started) =>
        (exitcode = <<0>> <=> child[1].returncode = 0)

\* C3 (as claimed): a run denied because the repository token has no table
\* entry shows the caller the same message and exit code as a run denied
\* because the repository grants the identity nothing ('Access denied', 1).
C3_DenialsIndistinguishable ==
    (/\ Exited
     /\ IsExactShape(cmdargv)
     /\ repo_name # <<>>
     /\ \/ repo_conf = <<>>
        \/ /\ repo_conf # <<>> /\ repo_path # <<>>
           /\ access = <<>> /\ exc # <<>>)
    => /\ exitcode = <<1>>
       /\ LastError.fmt = "Access denied"

\* C4 (as claimed): the lookup key is the repository token without one
\* LEADING path separator and otherwise unchanged.
C4_KeyIsTokenLessLeadingSep ==
    repo_name # <<>> =>
        repo_name[1] = IF StartsWith(cmdargv[3], <<sep>>)
                       THEN Tail(cmdargv[3])
                       ELSE cmdargv[3]

\* The identity has an entry in the matched section (or the defaults).
Granted ==
    LET key == Lower(args.user)
    IN  \/ key \in DOMAIN config.sections[repo_conf[1]]
        \/ key \in DOMAIN config.defaults

GrantValue ==
    LET key == Lower(args.user)
    IN  IF key \in DOMAIN config.sections[repo_conf[1]]
        THEN config.sections[repo_conf[1]][key]
        ELSE config.defaults[key]

HasLocation ==
    \/ s_location \in DOMAIN config.sections[repo_conf[1]]
    \/ s_location \in DOMAIN config.defaults

NoSudoSetting ==
    \/ s_readonly \notin DOMAIN config.sections
    \/ /\ s_sudo \notin DOMAIN config.sections[s_readonly]
       /\ s_sudo \notin DOMAIN config.defaults

SudoSetting ==
    IF s_sudo \in DOMAIN config.sections[s_readonly]
    THEN config.sections[s_readonly][s_sudo]
    ELSE config.defaults[s_sudo]

\* C6: a 'read' grant with no impersonation identity configured ends with
\* the 'Bad config: no readonly sudo user' error and status 1; nothing is
\* spawned, in particular not the un-wrapped server.
C6_ReadWithoutSudoUserFails ==
    (access = <<s_read>> /\ NoSudoSetting) =>
        /\ pc \notin {"run", "return"}
        /\ spawned = <<>> /\ child = <<>>
        /\ Exited => ExitedWithError("Bad config: no readonly sudo user")

C6_Witness ==
    /\ ExitedWithError("Bad config: no readonly sudo user")
    /\ access = <<s_read>> /\ NoSudoSetting
    /\ spawned = <<>>

\* The location of the matched repository, resolved.
TableLocation ==
    IF s_location \in DOMAIN config.sections[repo_conf[1]]
    THEN config.sections[repo_conf[1]][s_location]
    ELSE config.defaults[s_location]

ResolvedFromTable(path) ==
    /\ path = abspath(expanduser(TableLocation, environ.HOME), cwd)
    /\ Head(path) = sep

\* C7: for a 'read' grant with impersonation identity U the spawned vector
\* is exactly sudo --user=U -- hg -R <resolved absolute path> serve --stdio.
C7_ReadRunsUnderSudo ==
    (spawned # <<>> /\ access = <<s_read>>) =>
        LET v == spawned[1]
        IN  /\ ~NoSudoSetting
            /\ Len(v) = 8
            /\ v[1] = <<"s", "u", "d", "o">>
            /\ v[2] = <<"-", "-", "u", "s", "e", "r", "=">> \o SudoSetting
            /\ v[3] = <<"-", "-">>
            /\ SubSeq(v, 4, 5) = <<s_hg, s_R>>
            /\ ResolvedFromTable(v[6])
            /\ SubSeq(v, 7, 8) = <<s_serve, s_stdio>>

\* The example ACL: user1 reads myrepo2 as hgread.
C7_Witness ==
    /\ spawned # <<>> /\ access = <<s_read>>
    /\ conffile = <<ExampleACL>>
    /\ spawned[1][2] = <<"-", "-", "u", "s", "e", "r", "=", "h", "g", "r", "e", "a", "d">>
    /\ spawned[1][6] = <<sep, "a", "b", "s", "o", "l", "u", "t", "e", sep>>
                          \o <<"p", "a", "t", "h", sep, "t", "o", sep, "r", "e", "p", "o">>

\* C8: for a 'write' grant the spawned vector is exactly
\* hg -R <resolved absolute path> serve --stdio, with no impersonation
\* prefix whether or not an identity is configured; the path is the table's
\* location, resolved.
C8_WriteRunsDirect ==
    (spawned # <<>> /\ access = <<s_write>>) =>
        LET v == spawned[1]
        IN  /\ Len(v) = 5
            /\ SubSeq(v, 1, 2) = <<s_hg, s_R>>
            /\ ResolvedFromTable(v[3])
            /\ SubSeq(v, 4, 5) = <<s_serve, s_stdio>>

\* A write grant on a relative location, with a sudo user configured.
C8_Witness ==
    /\ spawned # <<>> /\ access = <<s_write>>
    /\ ~NoSudoSetting
    /\ ~isabs(TableLocation)
    /\ spawned[1][3] = p_cwd \o <<sep>> \o TableLocation
    /\ spawned[1][3] # cmdargv[3]

\* C9 (as claimed): with the example ACL of the module documentation, user1
\* gets write access and user2 read access to myrepo1.
C9_ExampleACLGrants ==
    (/\ conffile = <<ExampleACL>>
     /\ Exited
     /\ repo_conf = <<s_repos_prefix \o r_myrepo1>>)
    => /\ args.user = u_user1 => (access = <<s_write>> /\ spawned # <<>>)
       /\ args.user = u_user2 => (access = <<s_read>> /\ spawned # <<>>)

\* The order of the steps of a run.
PcOrder ==
    <<"parse_args", "read_config", "validate", "lookup_repo",
      "lookup_location", "lookup_access", "build_cmd", "run", "return">>

PcIndex(p) == CHOOSE i \in 1..Len(PcOrder) : PcOrder[i] = p

LinearStep ==
    \/ /\ pc \in {PcOrder[i] : i \in 1..(Len(PcOrder) - 1)}
       /\ pc' = PcOrder[PcIndex(pc) + 1]
    \/ /\ pc \in {PcOrder[i] : i \in 1..(Len(PcOrder) - 1)}
       /\ pc' = "except"
    \/ /\ pc \in {"return", "except"}
       /\ pc' = "exited"

GatedSpawn ==
    /\ Len(spawned) <= 1
    /\ spawned # <<>> =>
          /\ IsExactShape(cmdargv)
          /\ repo_conf # <<>> /\ repo_conf[1] \in DOMAIN config.sections
          /\ repo_path # <<>> /\ HasLocation
          /\ access \in {<<s_read>>, <<s_write>>}
          /\ Granted /\ GrantValue = access[1]
    /\ (exc # <<>> /\ exc[1].type # "OSError") => spawned = <<>>
    /\ (Exited /\ exc # <<>>) =>
          /\ exitcode = <<1>>
          /\ stderr # <<>> /\ LastError = exc[1]
    /\ (Exited /\ exc = <<>>) => Len(spawned) = 1

\* C10: a run goes through its steps in order, with no loop or retry; the
\* server is spawned at most once, only after the command was validated,
\* the repository and its location were found and the grant was 'read' or
\* 'write'; an error at an earlier step goes straight to the handler
\* (message on the error stream, status 1) and nothing is spawned.
C10_LinearPipeline == [][LinearStep]_vars /\ []GatedSpawn

C10_Witness ==
    /\ Exited /\ Len(spawned) = 1 /\ exc = <<>> /\ exitcode = <<0>>

=============================================================================
